---- MODULE Spec2Model ----
(***************************************************************************)
(* Appointment bot of src/app.js: the calendar generator                   *)
(* (generarDiasDisponibles), the slot catalog (HORARIOS), the reservation  *)
(* store (cargarCitas, guardarCita over the 'citas' collection) and the    *)
(* three-step conversation flowCita, one conversation per requester.       *)
(*                                                                         *)
(* Time: an instant is a local calendar day number (day 0 is a Sunday) and *)
(* a local hour; the process runs at a fixed UTC offset tz (hours).        *)
(* Every await of a handler that touches the collection is a step of its   *)
(* own, so conversations of different requesters interleave there.         *)
(*                                                                         *)
(* conv records, for the conversation a requester is in, the index replied *)
(* at the day selection, the free slots shown and the index replied at the *)
(* slot selection (0 and <<>> when there was none); it is history only, no *)
(* step reads it.                                                          *)
(***************************************************************************)
EXTENDS Integers, Sequences, FiniteSets, TLC

VARIABLES now, tz, citas, pc, state, ctx, out, log, convs, conv,
          readyState, CitaModel, compilados, llamada

\* The connection of the process and the calls of getCitasCollection
conexion == <<readyState, CitaModel, compilados, llamada>>

\* The conversations
flujo == <<pc, state, ctx, out, log, convs, conv>>

vars == <<now, tz, citas, flujo, conexion>>

----------------------------------------------------------------------------
(* Bounds of the model *)

NumUsuarios == 2      \* requesters holding a conversation
MaxHolas == 2         \* greetings sent in a run, all requesters together
NumLlamadas == 3      \* calls of getCitasCollection in a run

Usuarios == 1..NumUsuarios
Otro == NumUsuarios + 1   \* requester of the appointments stored before the run

----------------------------------------------------------------------------
(* Calendar generator *)

NumDias == 5

\* Variant of getDay: the weekday number is off by one (0 = Saturday)
getDayDesplazado(fecha) == (fecha.dia + 1) % 7

\* Date.getDay(): weekday of the local calendar day, 0 = Sunday
getDay(fecha) == fecha.dia % 7

\* Variant of setDate: the loop steps two calendar days at a time
setDateMas2(fecha) == [fecha EXCEPT !.dia = @ + 2]

\* fecha.setDate(fecha.getDate() + 1): next local calendar day, same local time
setDateMas1(fecha) == [fecha EXCEPT !.dia = @ + 1]

\* fecha.toISOString().split('T')[0]: the calendar date of the instant in UTC
toISODate(fecha, offset) == (fecha.dia * 24 + fecha.hora - offset) \div 24

\* fecha.toLocaleDateString(...): the local calendar date, for display
toLocaleDate(fecha) == fecha.dia

RECURSIVE generarLoop(_, _, _)
generarLoop(dias, fecha, offset) ==
    IF Len(dias) < NumDias
    THEN LET f == setDateMas1(fecha)
             diaSemana == getDay(f)
         IN IF diaSemana >= 1 /\ diaSemana <= 5
            THEN generarLoop(Append(dias, [fechaISO |-> toISODate(f, offset),
                                            nombre |-> toLocaleDate(f)]),
                             f, offset)
            ELSE generarLoop(dias, f, offset)
    ELSE dias

generarDiasDisponibles(fecha, offset) == generarLoop(<<>>, fecha, offset)

----------------------------------------------------------------------------
(* Slot catalog *)

HORARIOS == <<"9:00 AM", "10:30 AM", "1:00 PM", "3:30 PM", "5:00 PM">>

\* `${fechaISO}|${hora}`
Clave(fechaISO, hora) == <<fechaISO, hora>>

----------------------------------------------------------------------------
(* Replies: ctx.body is a sequence of characters *)

Digitos == <<"0", "1", "2", "3", "4", "5", "6", "7", "8", "9">>

EsDigito(c) == \E i \in 1..Len(Digitos) : Digitos[i] = c

ValorDigito(c) == (CHOOSE i \in 1..Len(Digitos) : Digitos[i] = c) - 1

RECURSIVE SinEspacios(_)
SinEspacios(s) ==
    IF s # <<>> /\ Head(s) = " " THEN SinEspacios(Tail(s)) ELSE s

RECURSIVE LeerDigitos(_, _)
LeerDigitos(s, acc) ==
    IF s # <<>> /\ EsDigito(Head(s))
    THEN LeerDigitos(Tail(s), acc * 10 + ValorDigito(Head(s)))
    ELSE acc

\* parseInt(ctx.body): leading blanks are skipped, then an optional sign, then
\* the longest prefix of decimal digits; NaN when that prefix is empty.
parseInt(body) ==
    LET s == SinEspacios(body)
        neg == s # <<>> /\ Head(s) = "-"
        t == IF s # <<>> /\ Head(s) \in {"-", "+"} THEN Tail(s) ELSE s
    IN IF t = <<>> \/ ~EsDigito(Head(t))
       THEN [nan |-> TRUE, val |-> 0]
       ELSE [nan |-> FALSE,
             val |-> IF neg THEN 0 - LeerDigitos(t, 0) ELSE LeerDigitos(t, 0)]

isNaN(num) == num.nan

\* The replies a requester sends at a capture step
Cuerpos == { <<"1">>, <<"2">>, <<"9">>, <<"0">>, <<"h", "o", "l", "a">>,
             <<"1", ":", "0", "0", " ", "P", "M">>, <<" ", "1">>, <<"-", "1">> }

----------------------------------------------------------------------------
(* Reservation store: the 'citas' collection, documents keyed by _id *)

ErrCargar == "No se pudieron cargar las citas desde la base de datos."
ErrDuplicada == "Ese horario ya fue reservado. Por favor inicia de nuevo con *hola*."
ErrGuardar == "No se pudo guardar la cita en la base de datos."

LogError(texto) == [nivel |-> "error", texto |-> texto]
LogInfo(texto) == [nivel |-> "log", texto |-> texto]

\* CitaModel.find({}) followed by the forEach that fills citasObj
citasObj(coll) ==
    [k \in {c._id : c \in coll} |->
        LET cita == CHOOSE c \in coll : c._id = k
        IN [fecha |-> cita.fecha, hora |-> cita.hora,
            usuario |-> cita.usuario, timestamp |-> cita.timestamp]]

\* Variant of cargarCitas: a failing store reads as an empty collection
cargarCitasVacia(coll, disponible) ==
    [ok |-> TRUE, citas |-> citasObj(IF disponible THEN coll ELSE {}), coll |-> coll,
     log |-> IF disponible THEN <<>>
             ELSE <<LogError("Error al cargar citas desde MongoDB:")>>]

\* Variant of cargarCitas: the documents read are taken out of the collection
cargarCitasRetira(coll, disponible) ==
    IF disponible
    THEN [ok |-> TRUE, citas |-> citasObj(coll), coll |-> {}, log |-> <<>>]
    ELSE [ok |-> FALSE, error |-> ErrCargar, coll |-> coll,
          log |-> <<LogError("Error al cargar citas desde MongoDB:")>>]

\* cargarCitas(): the snapshot, or the error thrown when the store fails; coll
\* is the collection after the call, which find({}) leaves as it was
cargarCitas(coll, disponible) ==
    IF disponible
    THEN [ok |-> TRUE, citas |-> citasObj(coll), coll |-> coll, log |-> <<>>]
    ELSE [ok |-> FALSE, error |-> ErrCargar, coll |-> coll,
          log |-> <<LogError("Error al cargar citas desde MongoDB:")>>]

\* citas[clave], tested for truth
Reservada(obj, clave) == clave \in DOMAIN obj

\* new CitaModel({ _id: clave, ...datosCita })
nuevaCita(clave, datosCita) ==
    [_id |-> clave, fecha |-> datosCita.fecha, hora |-> datosCita.hora,
     usuario |-> datosCita.usuario, timestamp |-> datosCita.timestamp]

\* Variant of save: the document replaces the one stored under its _id
saveReemplaza(coll, doc) ==
    [ok |-> TRUE, code |-> 0, coll |-> {c \in coll : c._id # doc._id} \cup {doc}]

\* Variant of save: the collection has no unique index on _id
saveSinIndice(coll, doc) == [ok |-> TRUE, code |-> 0, coll |-> coll \cup {doc}]

\* nuevaCita.save(): the engine's insert under the unique index on _id;
\* code 11000 when a document with that _id exists
save(coll, doc) ==
    IF \E c \in coll : c._id = doc._id
    THEN [ok |-> FALSE, code |-> 11000, coll |-> coll]
    ELSE [ok |-> TRUE, code |-> 0, coll |-> coll \cup {doc}]

\* Variant of guardarCita: the duplicate-key error is caught and not rethrown
guardarCitaTraga(coll, clave, datosCita, disponible) ==
    IF ~disponible
    THEN [r |-> "Fault", coll |-> coll, error |-> ErrGuardar,
          log |-> <<LogError("Error al guardar cita en MongoDB:")>>]
    ELSE LET s == save(coll, nuevaCita(clave, datosCita))
         IN [r |-> "Committed", coll |-> s.coll, error |-> "",
             log |-> <<LogInfo("Cita guardada exitosamente")>>]

\* guardarCita(clave, datosCita): r is "Committed" when it returns, else the
\* call throws error
guardarCita(coll, clave, datosCita, disponible) ==
    IF ~disponible
    THEN [r |-> "Fault", coll |-> coll, error |-> ErrGuardar,
          log |-> <<LogError("Error al guardar cita en MongoDB:")>>]
    ELSE LET s == save(coll, nuevaCita(clave, datosCita))
         IN IF s.ok
            THEN [r |-> "Committed", coll |-> s.coll, error |-> "",
                  log |-> <<LogInfo("Cita guardada exitosamente")>>]
            ELSE IF s.code = 11000
            THEN [r |-> "Conflict", coll |-> coll, error |-> ErrDuplicada,
                  log |-> <<LogError("Error al guardar cita en MongoDB:"),
                            LogError("Error: La cita ya existe (clave duplicada).")>>]
            ELSE [r |-> "Fault", coll |-> coll, error |-> ErrGuardar,
                  log |-> <<LogError("Error al guardar cita en MongoDB:")>>]

----------------------------------------------------------------------------
(* Messages sent to a requester *)

MsgPerfecto == [t |-> "perfecto"]
MsgOpciones(dias) == [t |-> "opciones", dias |-> [i \in 1..Len(dias) |-> dias[i].nombre]]
MsgValidandoSeleccion == [t |-> "validandoSeleccion"]
MsgNumeroValido == [t |-> "numeroValido"]
MsgSinHorarios(dia) == [t |-> "sinHorarios", dia |-> dia.nombre]
MsgEscribeHola == [t |-> "escribeHola"]
MsgHorarios(dia, horarios) == [t |-> "horarios", dia |-> dia.nombre, lista |-> horarios]
MsgValidandoHorario == [t |-> "validandoHorario"]
MsgOpcionInvalida == [t |-> "opcionInvalida"]
MsgIniciaDeNuevo == [t |-> "iniciaDeNuevo"]
MsgYaReservado == [t |-> "yaReservado"]
MsgConfirmada(dia, hora) == [t |-> "confirmada", dia |-> dia.nombre, hora |-> hora]
MsgError(message) == [t |-> "error", texto |-> message]

----------------------------------------------------------------------------
(* Conversation state of the flow runtime, one object per requester *)

EstadoVacio == [k \in {} |-> {}]

\* state.update(obj): the keys of obj replace or extend those of the state
stateUpdate(s, obj) == obj @@ s

\* Variant of elegir: the reply is used as a 0-based index
elegirSinRestar(lista, num) ==
    lista[IF num.val < Len(lista) THEN num.val + 1 ELSE Len(lista)]

\* dias[num - 1], horariosDisponibles[num - 1]: the entry a 1-based reply names
elegir(lista, num) == lista[num.val]

\* Variant of horariosLibres: the key is built from the display name of the day
horariosLibresNombre(obj, diaSeleccionado) ==
    SelectSeq(HORARIOS, LAMBDA hora : ~Reservada(obj, Clave(diaSeleccionado.nombre, hora)))

\* HORARIOS.filter(hora => !citas[`${diaSeleccionado.fechaISO}|${hora}`])
horariosLibres(obj, diaSeleccionado) ==
    SelectSeq(HORARIOS, LAMBDA hora : ~Reservada(obj, Clave(diaSeleccionado.fechaISO, hora)))

\* Where the runtime leaves a conversation whose callback threw: the callback
\* has no handler of its own, the step is not advanced by the callback's
\* return, and whether the runtime keeps the capture or drops the
\* conversation is not decided by this program.
TrasExcepcion(etapa) == {etapa, "idle"}

----------------------------------------------------------------------------
(* The connection and the appointment model *)

Llamadas == 1..NumLlamadas

\* A call of getCitasCollection that has not started
SinLlamar == [pc |-> "inicio", ret |-> "nada"]

\* initCitaModel(): mongoose.model(...) is called only when CitaModel is unset
initCitaModel(modelo, n) ==
    IF modelo = "undefined"
    THEN [CitaModel |-> "modelo", compilados |-> n + 1]
    ELSE [CitaModel |-> modelo, compilados |-> n]

\* getCitasCollection(), up to its await or, when connected, to its return.
\* mongoose.connect() takes a disconnected connection (0) to connecting (2)
getCitasCollection(c) ==
    /\ llamada[c].pc = "inicio"
    /\ IF readyState # 1
       THEN /\ llamada' = [llamada EXCEPT ![c].pc = "await"]
            /\ readyState' = 2
       ELSE /\ llamada' = [llamada EXCEPT ![c] = [pc |-> "fin", ret |-> CitaModel]]
            /\ readyState' = readyState
    /\ UNCHANGED <<CitaModel, compilados, now, tz, citas, flujo>>

\* The connection is established: readyState becomes 1 and the promise every
\* suspended call awaits is resolved; the calls resume later, one at a time
ConexionAbierta ==
    /\ readyState = 2
    /\ readyState' = 1
    /\ llamada' = [c \in Llamadas |->
                      IF llamada[c].pc = "await"
                      THEN [llamada[c] EXCEPT !.pc = "resuelta"] ELSE llamada[c]]
    /\ UNCHANGED <<CitaModel, compilados, now, tz, citas, flujo>>

\* The connection attempt fails: the promise is rejected
ConexionFallida ==
    /\ readyState = 2
    /\ readyState' = 0
    /\ llamada' = [c \in Llamadas |->
                      IF llamada[c].pc = "await"
                      THEN [llamada[c] EXCEPT !.pc = "rechazada"] ELSE llamada[c]]
    /\ UNCHANGED <<CitaModel, compilados, now, tz, citas, flujo>>

\* getCitasCollection(), from its await on
Reanudar(c) ==
    /\ llamada[c].pc \in {"resuelta", "rechazada"}
    /\ IF llamada[c].pc = "rechazada"
       THEN /\ llamada' = [llamada EXCEPT ![c].pc = "lanzada"]
            /\ UNCHANGED <<CitaModel, compilados>>
       ELSE LET r == initCitaModel(CitaModel, compilados)
            IN /\ CitaModel' = r.CitaModel
               /\ compilados' = r.compilados
               /\ llamada' = [llamada EXCEPT ![c] = [pc |-> "fin", ret |-> r.CitaModel]]
    /\ UNCHANGED <<readyState, now, tz, citas, flujo>>

----------------------------------------------------------------------------
(* Initial states *)

SinFecha == [dia |-> 0, hora |-> 0]

DocPrevio(fechaISO, hora) ==
    [_id |-> Clave(fechaISO, hora), fecha |-> fechaISO, hora |-> hora,
     usuario |-> Otro, timestamp |-> SinFecha]

DiaLleno(fechaISO, n) == {DocPrevio(fechaISO, HORARIOS[i]) : i \in 1..n}

\* Stores found at start-up, relative to the days offered at instant f
Previas(f, offset) ==
    LET dias == generarDiasDisponibles(f, offset)
    IN { {},
         DiaLleno(dias[1].fechaISO, Len(HORARIOS)),
         DiaLleno(dias[1].fechaISO, Len(HORARIOS) - 1),
         {DocPrevio(dias[2].fechaISO, HORARIOS[2]), DocPrevio(0, HORARIOS[1])} }

\* Friday 22:00 local time, five hours behind UTC
RefsFlujo == {[dia |-> 5, hora |-> 22]}
TzsFlujo == {0 - 5}

\* No conversation, or one in which nothing was replied yet
SinConv == [i |-> 0, j |-> 0, ofrecidos |-> <<>>]

\* The history of requester u's conversation after a step that leaves it at p
Sigue(u, p, c) == conv' = [conv EXCEPT ![u] = IF p = "idle" THEN SinConv ELSE c]

InitFlujo ==
    /\ pc = [u \in Usuarios |-> "idle"]
    /\ state = [u \in Usuarios |-> EstadoVacio]
    /\ ctx = [u \in Usuarios |-> EstadoVacio]
    /\ out = [u \in Usuarios |-> <<>>]
    /\ log = [u \in Usuarios |-> <<>>]
    /\ convs = 0
    /\ conv = [u \in Usuarios |-> SinConv]
    /\ readyState = 0
    /\ CitaModel = "undefined"
    /\ compilados = 0
    /\ llamada = [c \in Llamadas |-> SinLlamar]

Init ==
    /\ now \in RefsFlujo
    /\ tz \in TzsFlujo
    /\ citas \in Previas(now, tz)
    /\ InitFlujo

----------------------------------------------------------------------------
(* flowCita *)

\* flowDynamic and the prompts of the runtime: msgs is what this run of a
\* callback sends to requester u, in order
Enviar(u, msgs) == out' = [out EXCEPT ![u] = msgs]

\* Step 1: the greeting keyword starts the flow
Hola(u) ==
    /\ pc[u] = "idle"
    /\ convs < MaxHolas
    /\ LET dias == generarDiasDisponibles(now, tz)
       IN /\ state' = [state EXCEPT ![u] = stateUpdate(@, [diasDisponibles |-> dias])]
          /\ Enviar(u, <<MsgPerfecto, MsgOpciones(dias), MsgValidandoSeleccion>>)
    /\ pc' = [pc EXCEPT ![u] = "s2_wait"]
    /\ ctx' = [ctx EXCEPT ![u] = EstadoVacio]
    /\ log' = [log EXCEPT ![u] = <<>>]
    /\ convs' = convs + 1
    /\ conv' = [conv EXCEPT ![u] = SinConv]
    /\ UNCHANGED <<now, tz, citas, conexion>>

\* Step 2, up to the await of cargarCitas: the reply is validated
DiaReply(u, body) ==
    /\ pc[u] = "s2_wait"
    /\ LET dias == state[u].diasDisponibles
           num == parseInt(body)
       IN IF isNaN(num) \/ num.val < 1 \/ num.val > Len(dias)
          THEN /\ Enviar(u, <<MsgNumeroValido, MsgValidandoSeleccion>>)
               /\ ctx' = [ctx EXCEPT ![u] = EstadoVacio]
               /\ pc' = pc
               /\ conv' = conv
          ELSE /\ Enviar(u, <<>>)
               /\ ctx' = [ctx EXCEPT ![u] = [diaSeleccionado |-> elegir(dias, num)]]
               /\ pc' = [pc EXCEPT ![u] = "s2_load"]
               /\ conv' = [conv EXCEPT ![u] = [SinConv EXCEPT !.i = num.val]]
    /\ log' = [log EXCEPT ![u] = <<>>]
    /\ UNCHANGED <<now, tz, citas, state, convs, conexion>>

\* Step 2, from the await of cargarCitas on
DiaLoad(u, disponible) ==
    /\ pc[u] = "s2_load"
    /\ LET r == cargarCitas(citas, disponible)
           diaSeleccionado == ctx[u].diaSeleccionado
       IN /\ citas' = r.coll
          /\ IF ~r.ok
             THEN /\ log' = [log EXCEPT ![u] = r.log]
                  /\ \E p \in TrasExcepcion("s2_wait") :
                        pc' = [pc EXCEPT ![u] = p] /\ Sigue(u, p, conv[u])
                  /\ UNCHANGED <<ctx, out, state>>
             ELSE LET horariosDisponibles == horariosLibres(r.citas, diaSeleccionado)
                  IN /\ log' = [log EXCEPT ![u] = r.log]
                     /\ ctx' = [ctx EXCEPT ![u] = [horariosDisponibles |-> horariosDisponibles] @@ @]
                     /\ pc' = [pc EXCEPT ![u] = "s3_wait"]
                     /\ conv' = [conv EXCEPT ![u].ofrecidos = horariosDisponibles]
                     /\ IF Len(horariosDisponibles) = 0
                        THEN /\ Enviar(u, <<MsgSinHorarios(diaSeleccionado),
                                                            MsgEscribeHola, MsgValidandoHorario>>)
                             /\ state' = state
                        ELSE /\ state' = [state EXCEPT ![u] = stateUpdate(@,
                                             [diaSeleccionado |-> diaSeleccionado,
                                              horariosDisponibles |-> horariosDisponibles])]
                             /\ Enviar(u, <<MsgHorarios(diaSeleccionado, horariosDisponibles),
                                                            MsgValidandoHorario>>)
    /\ UNCHANGED <<now, tz, convs, conexion>>

\* Step 3, up to the await of cargarCitas: the reply is validated
HorarioReply(u, body) ==
    /\ pc[u] = "s3_wait"
    /\ LET s == state[u]
           num == parseInt(body)
           invalida == /\ Enviar(u, <<MsgOpcionInvalida, MsgIniciaDeNuevo>>)
                       /\ ctx' = [ctx EXCEPT ![u] = EstadoVacio]
                       /\ pc' = [pc EXCEPT ![u] = "idle"]
                       /\ Sigue(u, "idle", conv[u])
       IN IF isNaN(num) \/ num.val < 1
          THEN invalida
          ELSE IF "horariosDisponibles" \notin DOMAIN s
          THEN \* horariosDisponibles is undefined: reading its length throws
               /\ Enviar(u, <<>>)
               /\ ctx' = [ctx EXCEPT ![u] = EstadoVacio]
               /\ \E p \in TrasExcepcion("s3_wait") :
                     pc' = [pc EXCEPT ![u] = p] /\ Sigue(u, p, conv[u])
          ELSE IF num.val > Len(s.horariosDisponibles)
          THEN invalida
          ELSE LET horaSeleccionada == elegir(s.horariosDisponibles, num)
               IN /\ Enviar(u, <<>>)
                  /\ ctx' = [ctx EXCEPT ![u] =
                                [diaSeleccionado |-> s.diaSeleccionado,
                                 horaSeleccionada |-> horaSeleccionada,
                                 clave |-> Clave(s.diaSeleccionado.fechaISO, horaSeleccionada)]]
                  /\ pc' = [pc EXCEPT ![u] = "s3_load"]
                  /\ conv' = [conv EXCEPT ![u].j = num.val]
    /\ log' = [log EXCEPT ![u] = <<>>]
    /\ UNCHANGED <<now, tz, citas, state, convs, conexion>>

\* Step 3, the second read of the store, up to the await of guardarCita
HorarioLoad(u, disponible) ==
    /\ pc[u] = "s3_load"
    /\ LET r == cargarCitas(citas, disponible)
       IN /\ citas' = r.coll
          /\ IF ~r.ok
             THEN /\ log' = [log EXCEPT ![u] = r.log]
                  /\ \E p \in TrasExcepcion("s3_wait") :
                        pc' = [pc EXCEPT ![u] = p] /\ Sigue(u, p, conv[u])
                  /\ UNCHANGED <<ctx, out>>
             ELSE IF Reservada(r.citas, ctx[u].clave)
             THEN /\ log' = [log EXCEPT ![u] = r.log]
                  /\ Enviar(u, <<MsgYaReservado, MsgIniciaDeNuevo>>)
                  /\ ctx' = ctx
                  /\ pc' = [pc EXCEPT ![u] = "idle"]
                  /\ Sigue(u, "idle", conv[u])
             ELSE /\ log' = [log EXCEPT ![u] = r.log]
                  /\ ctx' = [ctx EXCEPT ![u] =
                                [datosNuevaCita |->
                                    [fecha |-> ctx[u].diaSeleccionado.fechaISO,
                                     hora |-> ctx[u].horaSeleccionada,
                                     usuario |-> u,
                                     timestamp |-> now]] @@ @]
                  /\ pc' = [pc EXCEPT ![u] = "s3_save"]
                  /\ UNCHANGED <<out, conv>>
    /\ UNCHANGED <<now, tz, state, convs, conexion>>

\* Step 3, guardarCita and the message that follows it
HorarioSave(u, disponible) ==
    /\ pc[u] = "s3_save"
    /\ LET g == guardarCita(citas, ctx[u].clave, ctx[u].datosNuevaCita, disponible)
       IN /\ citas' = g.coll
          /\ ctx' = [ctx EXCEPT ![u] = [guardar |-> g.r] @@ @]
          /\ IF g.r = "Committed"
             THEN /\ Enviar(u, <<MsgConfirmada(ctx[u].diaSeleccionado,
                                                              ctx[u].horaSeleccionada)>>)
                  /\ log' = [log EXCEPT ![u] = g.log]
             ELSE /\ Enviar(u, <<MsgError(g.error)>>)
                  /\ log' = [log EXCEPT ![u] =
                                g.log \o <<LogError("Error en el flujo de guardado:")>>]
    /\ pc' = [pc EXCEPT ![u] = "idle"]
    /\ Sigue(u, "idle", conv[u])
    /\ UNCHANGED <<now, tz, state, convs, conexion>>

Next ==
    \E u \in Usuarios :
        \/ Hola(u)
        \/ \E body \in Cuerpos : DiaReply(u, body)
        \/ \E disponible \in BOOLEAN : DiaLoad(u, disponible)
        \/ \E body \in Cuerpos : HorarioReply(u, body)
        \/ \E disponible \in BOOLEAN : HorarioLoad(u, disponible)
        \/ \E disponible \in BOOLEAN : HorarioSave(u, disponible)

Spec == Init /\ [][Next]_vars

----------------------------------------------------------------------------
(* The calendar generator alone: every weekday and hour of the reference   *)
(* instant, every whole-hour UTC offset, and the greeting as only step     *)

RefsCal == {[dia |-> d, hora |-> h] : d \in 1..7, h \in 0..23}
TzsCal == (0 - 12)..14

InitCal ==
    /\ now \in RefsCal
    /\ tz \in TzsCal
    /\ citas = {}
    /\ InitFlujo

NextCal == \E u \in Usuarios : Hola(u)

SpecCal == InitCal /\ [][NextCal]_vars

----------------------------------------------------------------------------
(* The calls of getCitasCollection alone, in every order the event loop    *)
(* can run them and the connection events                                  *)

InitConexion ==
    /\ now \in RefsFlujo
    /\ tz \in TzsFlujo
    /\ citas = {}
    /\ InitFlujo

NextConexion ==
    \/ \E c \in Llamadas : getCitasCollection(c)
    \/ ConexionAbierta
    \/ ConexionFallida
    \/ \E c \in Llamadas : Reanudar(c)

SpecConexion == InitConexion /\ [][NextConexion]_vars

----------------------------------------------------------------------------
(* Properties *)

\* The appointments stored under key k
CitasDe(k) == {c \in citas : Clave(c.fecha, c.hora) = k}

\* Requester u's last step-3 run got as far as the return of guardarCita
GuardarHecho(u) == "guardar" \in DOMAIN ctx[u]

Contiene(msgs, t) == \E i \in 1..Len(msgs) : msgs[i].t = t

\* C1: in every reachable state no two stored appointments have the same
\* reservation key (fecha|hora); a key identifies at most one appointment.
C1_ClavesUnicas ==
    \A a \in citas : \A b \in citas :
        Clave(a.fecha, a.hora) = Clave(b.fecha, b.hora) => a = b

\* C1 witness: two requesters of the run hold appointments on the same day,
\* under different keys.
C1_Witness ==
    \E a \in citas : \E b \in citas :
        /\ a # b /\ a.fecha = b.fecha
        /\ a.usuario \in Usuarios /\ b.usuario \in Usuarios /\ a.usuario # b.usuario

\* C2, state part: of the guardarCita calls made for one key, no two returned
\* Committed; a call that returned Committed left its own appointment as the
\* only one under the key; a call that failed with the duplicate-key error
\* found another requester's appointment there, which is still the only one,
\* and the requester was told the slot is taken, not the generic failure.
C2_Estado ==
    \A u \in Usuarios :
        GuardarHecho(u) /\ ctx[u].guardar # "Fault" =>
            LET k == ctx[u].clave
            IN /\ Cardinality(CitasDe(k)) = 1
               /\ ctx[u].guardar = "Committed" =>
                     /\ CitasDe(k) = {nuevaCita(k, ctx[u].datosNuevaCita)}
                     /\ \A v \in Usuarios \ {u} :
                           GuardarHecho(v) /\ ctx[v].clave = k => ctx[v].guardar # "Committed"
               /\ ctx[u].guardar = "Conflict" =>
                     /\ \A c \in CitasDe(k) : c.usuario # u
                     /\ out[u] = <<MsgError(ErrDuplicada)>>

\* C2, step part: with the store available a guardarCita call returns
\* Committed exactly when no appointment had the key, and then adds exactly
\* its own; otherwise it fails with the duplicate-key outcome and the store
\* is unchanged.
C2_Paso ==
    \A u \in Usuarios :
        HorarioSave(u, TRUE) =>
            LET k == ctx[u].clave
            IN IF CitasDe(k) = {}
               THEN /\ ctx'[u].guardar = "Committed"
                    /\ citas' = citas \cup {nuevaCita(k, ctx[u].datosNuevaCita)}
               ELSE /\ ctx'[u].guardar = "Conflict"
                    /\ citas' = citas

\* C2: among the reserve calls racing for one key exactly one returns
\* Committed and the others fail with Conflict, and the store ends with
\* exactly one appointment for the key.
C2_ReservaExclusiva == []C2_Estado /\ [][C2_Paso]_vars

\* C2 witness: two requesters called guardarCita for the same key; one call
\* returned Committed and the other failed with the duplicate-key outcome.
C2_Witness ==
    \E u \in Usuarios : \E v \in Usuarios \ {u} :
        /\ GuardarHecho(u) /\ GuardarHecho(v)
        /\ ctx[u].clave = ctx[v].clave
        /\ ctx[u].guardar = "Committed" /\ ctx[v].guardar = "Conflict"

\* C3: a confirmation is sent to requester u only by a step-3 run whose
\* guardarCita call returned Committed, and then the store holds under the
\* key of the confirmed day and slot an appointment whose requester is u;
\* a run whose guardarCita call failed sends no confirmation.
C3_ConfirmaTrasCommitted ==
    \A u \in Usuarios :
        /\ Contiene(out[u], "confirmada") =>
              /\ GuardarHecho(u) /\ ctx[u].guardar = "Committed"
              /\ out[u] = <<MsgConfirmada(ctx[u].diaSeleccionado, ctx[u].horaSeleccionada)>>
              /\ \E c \in citas :
                    /\ c._id = Clave(ctx[u].diaSeleccionado.fechaISO, ctx[u].horaSeleccionada)
                    /\ c.fecha = ctx[u].diaSeleccionado.fechaISO
                    /\ c.hora = ctx[u].horaSeleccionada
                    /\ c.usuario = u
        /\ GuardarHecho(u) /\ ctx[u].guardar # "Committed" =>
              ~Contiene(out[u], "confirmada")

\* C3 witness: one requester holds a confirmation while another requester's
\* reserve call for the same key failed.
C3_Witness ==
    \E u \in Usuarios : \E v \in Usuarios \ {u} :
        /\ Contiene(out[u], "confirmada")
        /\ GuardarHecho(v) /\ ctx[v].guardar = "Conflict"
        /\ ctx[v].clave = ctx[u].clave

\* A store operation of requester u's last callback run failed
Fallo(u) ==
    \/ \E i \in 1..Len(log[u]) : log[u][i] = LogError("Error al cargar citas desde MongoDB:")
    \/ GuardarHecho(u) /\ ctx[u].guardar = "Fault"

\* Requester u's step 3 ran for a selected day and slot and ended, no store
\* operation of it having failed
Intento(u) == pc[u] = "idle" /\ "clave" \in DOMAIN ctx[u] /\ ~Fallo(u)

YaTomado(msgs) ==
    \/ msgs = <<MsgYaReservado, MsgIniciaDeNuevo>>
    \/ msgs = <<MsgError(ErrDuplicada)>>

Confirmacion(u) == <<MsgConfirmada(ctx[u].diaSeleccionado, ctx[u].horaSeleccionada)>>

\* C4, state part: every requester whose step 3 ended for day X and slot Y
\* with the store available got either the confirmation or an "already
\* taken" message; the store holds exactly one appointment for X|Y, made by
\* a requester of the run; only its requester can hold the confirmation, so
\* of two requesters who tried X|Y at most one was confirmed.
C4_Estado ==
    \A u \in Usuarios :
        Intento(u) =>
            LET k == ctx[u].clave
            IN /\ Cardinality(CitasDe(k)) = 1
               /\ \A c \in CitasDe(k) : c.usuario \in Usuarios
               /\ out[u] = Confirmacion(u) \/ YaTomado(out[u])
               /\ out[u] = Confirmacion(u) => \A c \in CitasDe(k) : c.usuario = u
               /\ \A v \in Usuarios \ {u} :
                     Intento(v) /\ ctx[v].clave = k =>
                        ~(out[u] = Confirmacion(u) /\ out[v] = Confirmacion(v))

\* C4, step part: an appointment enters the store only in a step that sends
\* its requester the confirmation for that day and slot.
C4_Paso ==
    citas' # citas =>
        \E u \in Usuarios :
            /\ pc[u] = "s3_save" /\ pc'[u] = "idle"
            /\ citas' = citas \cup {nuevaCita(ctx[u].clave, ctx[u].datosNuevaCita)}
            /\ ctx[u].datosNuevaCita.usuario = u
            /\ out'[u] = <<MsgConfirmada(ctx[u].diaSeleccionado, ctx[u].horaSeleccionada)>>

\* C4: of the requesters who select the same day and slot and attempt to
\* commit with the store available, exactly one receives the confirmation,
\* every other one an "already taken" message (from the re-read or from the
\* duplicate-key failure), and the store ends with one appointment for it.
C4_UnoConfirmado == []C4_Estado /\ [][C4_Paso]_vars

\* C4 witness: two requesters tried the same day and slot; one was confirmed
\* and the other was turned away by the re-read before the commit.
C4_Witness ==
    \E u \in Usuarios : \E v \in Usuarios \ {u} :
        /\ Intento(u) /\ Intento(v) /\ ctx[u].clave = ctx[v].clave
        /\ out[u] = Confirmacion(u)
        /\ out[v] = <<MsgYaReservado, MsgIniciaDeNuevo>>

\* C5: the day list produced for a greeting has exactly 5 entries; their
\* dateKeys are pairwise distinct and increase strictly, as do their
\* calendar days; each day is strictly after the reference day (each dateKey
\* strictly after the reference instant's own dateKey) and is a Monday to
\* Friday by the weekday test the generator makes.
C5_DiasGenerados ==
    \A u \in Usuarios :
        "diasDisponibles" \in DOMAIN state[u] =>
            LET dias == state[u].diasDisponibles
            IN /\ Len(dias) = 5
               /\ \A i \in 1..Len(dias) : \A j \in 1..Len(dias) :
                     i < j => /\ dias[i].fechaISO < dias[j].fechaISO
                              /\ dias[i].nombre < dias[j].nombre
               /\ \A i \in 1..Len(dias) :
                     /\ dias[i].nombre > now.dia
                     /\ dias[i].fechaISO > toISODate(now, tz)
                     /\ dias[i].nombre % 7 \in 1..5

\* C5 witness: a list generated on a Saturday in a process whose UTC date
\* differs from its local date at that hour.
C5_Witness ==
    \E u \in Usuarios :
        /\ "diasDisponibles" \in DOMAIN state[u]
        /\ now.dia % 7 = 6
        /\ state[u].diasDisponibles[1].fechaISO # state[u].diasDisponibles[1].nombre

\* The catalog without the slots some stored appointment holds on dateKey f
CatalogoMenosTomados(coll, f) ==
    SelectSeq(HORARIOS, LAMBDA h : \A c \in coll : ~(c.fecha = f /\ c.hora = h))

\* C6: when the day selection reads the store, the free-slot list it computes
\* is the catalog, in catalog order, without exactly the slots for which an
\* appointment with the chosen dateKey is stored; appointments of other
\* dateKeys remove nothing. A non-empty list is what is stored and offered.
C6_Paso ==
    \A u \in Usuarios :
        DiaLoad(u, TRUE) =>
            LET libres == CatalogoMenosTomados(citas, ctx[u].diaSeleccionado.fechaISO)
            IN /\ ctx'[u].horariosDisponibles = libres
               /\ libres # <<>> =>
                     /\ state'[u].horariosDisponibles = libres
                     /\ out'[u][1] = MsgHorarios(ctx[u].diaSeleccionado, libres)

C6_HorariosLibres == [][C6_Paso]_vars

\* C6 witness: a list was computed that lacks some but not all slots of the
\* catalog, while the store also holds an appointment of another dateKey.
C6_Witness ==
    \E u \in Usuarios :
        /\ pc[u] = "s3_wait"
        /\ "horariosDisponibles" \in DOMAIN ctx[u]
        /\ ctx[u].horariosDisponibles # HORARIOS
        /\ ctx[u].horariosDisponibles # <<>>
        /\ \E c \in citas : c.fecha # ctx[u].diaSeleccionado.fechaISO

\* The reply, blanks at its start aside, is a decimal numeral of value 1..n
EnteroEnRango(body, n) ==
    LET s == SinEspacios(body)
    IN /\ s # <<>>
       /\ \A i \in 1..Len(s) : EsDigito(s[i])
       /\ LeerDigitos(s, 0) \in 1..n

\* C7: at the day selection a reply that is not an integer in [1, len(days)]
\* leaves the conversation at the day selection, is answered with the
\* validation message, changes neither the stored day list nor the store and
\* starts no read of the store.
C7_Paso ==
    \A u \in Usuarios : \A body \in Cuerpos :
        DiaReply(u, body) /\ ~EnteroEnRango(body, Len(state[u].diasDisponibles)) =>
            /\ pc'[u] = "s2_wait"
            /\ out'[u] = <<MsgNumeroValido, MsgValidandoSeleccion>>
            /\ state' = state
            /\ citas' = citas

C7_RespuestaInvalida == [][C7_Paso]_vars

\* C8: once the "no availability" message was sent to a requester the
\* conversation is idle: the next reply is not taken as a slot selection.
C8_SinHorariosTermina ==
    \A u \in Usuarios : Contiene(out[u], "sinHorarios") => pc[u] = "idle"

\* The free slots offered to requester u, none when no list was stored
Ofrecidos(u) ==
    IF "horariosDisponibles" \in DOMAIN state[u] THEN state[u].horariosDisponibles ELSE <<>>

\* C9: at the slot selection a reply that is not an integer in
\* [1, len(offered free slots)] is answered with the restart instruction,
\* ends the conversation, makes no reserve call and leaves the store as it
\* is; and every callback run of this step ends with the conversation idle.
C9_Paso ==
    \A u \in Usuarios :
        /\ \A body \in Cuerpos :
              HorarioReply(u, body) /\ ~EnteroEnRango(body, Len(Ofrecidos(u))) =>
                  /\ out'[u] = <<MsgOpcionInvalida, MsgIniciaDeNuevo>>
                  /\ pc'[u] = "idle"
                  /\ citas' = citas
        /\ pc[u] \in {"s3_wait", "s3_load", "s3_save"} /\ pc'[u] # pc[u] =>
              pc'[u] \in {"s3_load", "s3_save", "idle"}
        /\ pc[u] \in {"s3_load", "s3_save"} /\ pc'[u] # pc[u] /\ pc'[u] = "idle" =>
              out'[u] # <<>>

C9_HorarioInvalido == [][C9_Paso]_vars

\* C10: whenever a store operation of a requester's turn fails (the load at
\* the day selection, the re-read before the commit, the reserve), the
\* requester is sent a failure message, the conversation becomes idle, no
\* confirmation is sent, and the fault itself goes to the log.
C10_Paso ==
    \A u \in Usuarios :
        DiaLoad(u, FALSE) \/ HorarioLoad(u, FALSE) \/ HorarioSave(u, FALSE) =>
            /\ Contiene(out'[u], "error")
            /\ ~Contiene(out'[u], "confirmada")
            /\ pc'[u] = "idle"
            /\ \E i \in 1..Len(log'[u]) : log'[u][i].nivel = "error"

C10_FalloDelAlmacen == [][C10_Paso]_vars

----------------------------------------------------------------------------
(* Properties of the whole conversation *)

\* The value of a reply that is a decimal numeral
Entero(body) == LeerDigitos(SinEspacios(body), 0)

\* In requester u's conversation a day was chosen by a valid index and a slot
\* by a valid index into the free slots shown for it
ConvValida(u) ==
    /\ conv[u].i \in 1..Len(state[u].diasDisponibles)
    /\ conv[u].j \in 1..Len(conv[u].ofrecidos)

DiaElegido(u) == state[u].diasDisponibles[conv[u].i]

\* The appointment of day i and of the j-th free slot shown, for requester u
CitaEsperada(u) ==
    [_id |-> Clave(DiaElegido(u).fechaISO, conv[u].ofrecidos[conv[u].j]),
     fecha |-> DiaElegido(u).fechaISO,
     hora |-> conv[u].ofrecidos[conv[u].j],
     usuario |-> u,
     timestamp |-> now]

\* C11: for a requester who greets, replies a valid day index i and then a
\* valid index j into the free slots shown, with the store available and no
\* other writer of that key, each step goes on to the next one and the commit
\* adds exactly one appointment: key dateKey(day i)|(j-th slot shown), with
\* that dateKey, that slot label and the requester's identifier; every
\* appointment stored before is still there, unchanged.
C11_Paso ==
    \A u \in Usuarios :
        /\ \A body \in Cuerpos :
              DiaReply(u, body) /\ EnteroEnRango(body, Len(state[u].diasDisponibles)) =>
                  /\ pc'[u] = "s2_load"
                  /\ conv'[u].i = Entero(body)
                  /\ ctx'[u].diaSeleccionado = state[u].diasDisponibles[Entero(body)]
        /\ DiaLoad(u, TRUE) /\ CatalogoMenosTomados(citas, DiaElegido(u).fechaISO) # <<>> =>
              /\ pc'[u] = "s3_wait"
              /\ conv'[u].ofrecidos = CatalogoMenosTomados(citas, DiaElegido(u).fechaISO)
        /\ \A body \in Cuerpos :
              HorarioReply(u, body) /\ EnteroEnRango(body, Len(conv[u].ofrecidos)) =>
                  /\ pc'[u] = "s3_load"
                  /\ conv'[u].j = Entero(body)
        /\ HorarioLoad(u, TRUE) /\ ConvValida(u) /\ CitasDe(CitaEsperada(u)._id) = {} =>
              pc'[u] = "s3_save"
        /\ HorarioSave(u, TRUE) /\ ConvValida(u) /\ CitasDe(CitaEsperada(u)._id) = {} =>
              /\ CitaEsperada(u) \notin citas
              /\ citas' = citas \cup {CitaEsperada(u)}
              /\ out'[u] = <<MsgConfirmada(DiaElegido(u), conv[u].ofrecidos[conv[u].j])>>

C11_CitaNueva == [][C11_Paso]_vars

\* C11 witness: a requester was confirmed for the second day and the second
\* free slot shown, in a store that held other appointments before.
C11_Witness ==
    \E u \in Usuarios :
        /\ pc[u] = "idle" /\ GuardarHecho(u) /\ ctx[u].guardar = "Committed"
        /\ ctx[u].diaSeleccionado = state[u].diasDisponibles[2]
        /\ ctx[u].horaSeleccionada = HORARIOS[3]
        /\ \E c \in citas : c.usuario = Otro /\ c.fecha = ctx[u].diaSeleccionado.fechaISO
        /\ nuevaCita(ctx[u].clave, ctx[u].datosNuevaCita) \in citas

\* C12: the store only grows: every step keeps each stored appointment with
\* the same dateKey, slot label, requester and creation time, and a reserve
\* call for a key that is taken fails with the duplicate-key outcome and
\* leaves the store as it was.
C12_Paso ==
    /\ \A c \in citas : c \in citas'
    /\ \A u \in Usuarios :
          HorarioSave(u, TRUE) /\ CitasDe(ctx[u].clave) # {} =>
              /\ ctx'[u].guardar = "Conflict"
              /\ citas' = citas

C12_SoloCrece == [][C12_Paso]_vars

\* C12 witness: a reserve call of one requester failed on a key whose
\* appointment, made by another requester of the run, is still stored.
C12_Witness ==
    \E u \in Usuarios :
        /\ GuardarHecho(u) /\ ctx[u].guardar = "Conflict"
        /\ \E c \in CitasDe(ctx[u].clave) :
              c.usuario \in Usuarios \ {u} /\ c.timestamp = now

\* The load of the step just run by requester u failed
CargaFallida(u) ==
    \E i \in 1..Len(log[u]) : log[u][i] = LogError("Error al cargar citas desde MongoDB:")

\* C13: a load of the reservations that fails is read neither as "free" nor
\* as "taken". At the day selection no list of slots is sent and nothing is
\* written to the conversation state; at the re-read before the commit the
\* reserve call is not reached, the store is untouched, and neither the
\* confirmation nor the "already reserved" message is sent.
C13_Paso ==
    \A u \in Usuarios :
        /\ DiaLoad(u, FALSE) =>
              /\ state'[u] = state[u]
              /\ "horariosDisponibles" \notin DOMAIN ctx'[u]
              /\ ~Contiene(out'[u], "horarios")
              /\ ~Contiene(out'[u], "sinHorarios")
              /\ pc'[u] # "s3_wait"
        /\ HorarioLoad(u, FALSE) =>
              /\ pc'[u] # "s3_save"
              /\ "datosNuevaCita" \notin DOMAIN ctx'[u]
              /\ citas' = citas
              /\ ~Contiene(out'[u], "confirmada")
              /\ ~Contiene(out'[u], "yaReservado")
              /\ ~Contiene(out'[u], "error")

C13_CargaFallida == [][C13_Paso]_vars

\* C13 witness: the load failed for one requester at the day selection and
\* for another at the re-read of a slot that is free.
C13_Witness ==
    \E u, v \in Usuarios :
        /\ CargaFallida(u) /\ "diaSeleccionado" \in DOMAIN ctx[u]
        /\ "clave" \notin DOMAIN ctx[u] /\ pc[u] \in TrasExcepcion("s2_wait")
        /\ CargaFallida(v) /\ "clave" \in DOMAIN ctx[v]
        /\ CitasDe(ctx[v].clave) = {} /\ pc[v] \in TrasExcepcion("s3_wait")

SinLogDeError(entradas) == \A i \in 1..Len(entradas) : entradas[i].nivel # "error"

\* C14: finding the slot already reserved is not an error for the log: when
\* the re-read before the commit finds the key, and when the reserve call
\* ends in the duplicate-key outcome, the step writes no error-level entry
\* and the requester gets the "already reserved" message.
C14_Paso ==
    \A u \in Usuarios :
        /\ HorarioLoad(u, TRUE) /\ CitasDe(ctx[u].clave) # {} =>
              /\ YaTomado(out'[u])
              /\ SinLogDeError(log'[u])
        /\ HorarioSave(u, TRUE) /\ CitasDe(ctx[u].clave) # {} =>
              /\ YaTomado(out'[u])
              /\ SinLogDeError(log'[u])

C14_ConflictoSinError == [][C14_Paso]_vars

\* Requester u holds a list of free slots, resolved for dateKey f, and no
\* appointment was stored since for f (it would hold a slot of the list)
ListaVigente(u, f) ==
    /\ "horariosDisponibles" \in DOMAIN ctx[u]
    /\ ctx[u].diaSeleccionado.fechaISO = f
    /\ \A c \in citas : \A k \in 1..Len(ctx[u].horariosDisponibles) :
          ~(c.fecha = f /\ c.hora = ctx[u].horariosDisponibles[k])

\* C15: resolving the free slots of a day only reads. The step that loads
\* the reservations and filters the catalog leaves the store as it was,
\* resolving again in the state it leaves gives the same list, and the list
\* equals the one any other requester holds for the same dateKey when no
\* appointment for it was stored in between.
C15_Paso ==
    \A v \in Usuarios :
        /\ \A d \in BOOLEAN : DiaLoad(v, d) => citas' = citas
        /\ DiaLoad(v, TRUE) =>
              /\ ctx'[v].horariosDisponibles =
                    horariosLibres(cargarCitas(citas', TRUE).citas, ctx[v].diaSeleccionado)
              /\ cargarCitas(citas', TRUE).coll = citas
              /\ \A u \in Usuarios \ {v} :
                    ListaVigente(u, ctx[v].diaSeleccionado.fechaISO) =>
                        ctx'[v].horariosDisponibles = ctx[u].horariosDisponibles

C15_ResolverSoloLee == [][C15_Paso]_vars

\* C15 witness: two requesters resolved the same dateKey, on which some but
\* not all slots are taken, and hold the same list.
C15_Witness ==
    \E u, v \in Usuarios :
        /\ u # v
        /\ ListaVigente(u, ctx[u].diaSeleccionado.fechaISO)
        /\ ListaVigente(v, ctx[u].diaSeleccionado.fechaISO)
        /\ ctx[u].horariosDisponibles = ctx[v].horariosDisponibles
        /\ Len(ctx[u].horariosDisponibles) \in 1..(Len(HORARIOS) - 1)
        /\ citas # {}

\* C17: an appointment committed for a requester comes from the
\* conversation that requester is in: its dateKey is that of the day chosen
\* by a valid index since the requester's latest greeting, and its slot is
\* one of the free slots listed for that day in the same conversation.
C17_Paso ==
    \A u \in Usuarios :
        HorarioSave(u, TRUE) =>
            \A c \in citas' \ citas :
                /\ c.usuario = u
                /\ conv[u].i \in 1..Len(state[u].diasDisponibles)
                /\ c.fecha = DiaElegido(u).fechaISO
                /\ \E k \in 1..Len(conv[u].ofrecidos) : conv[u].ofrecidos[k] = c.hora

C17_SoloConversacionActual == [][C17_Paso]_vars

----------------------------------------------------------------------------
(* Properties of the generated days *)

\* Day d of the local calendar is a Monday to Friday (day 0 is a Sunday)
EsLaborable(d) == d % 7 \in 1..5

\* C16: the list generated at a greeting holds, in order, the 5 earliest
\* Monday-to-Friday days strictly after the reference day: entry i is the
\* i-th such day, so none is skipped, and on a Saturday the first entry is
\* the Monday two days later.
C16_PrimerosLaborables ==
    \A u \in Usuarios :
        "diasDisponibles" \in DOMAIN state[u] =>
            LET dias == state[u].diasDisponibles
            IN /\ Len(dias) = 5
               /\ \A i \in 1..Len(dias) :
                     /\ EsLaborable(dias[i].nombre)
                     /\ dias[i].nombre > now.dia
                     /\ Cardinality({d \in (now.dia + 1)..dias[i].nombre : EsLaborable(d)}) = i
               /\ now.dia % 7 = 6 => dias[1].nombre = now.dia + 2

\* C16 witness: a list generated on a Saturday, from the Monday after it to
\* the Friday after it.
C16_Witness ==
    \E u \in Usuarios :
        /\ "diasDisponibles" \in DOMAIN state[u]
        /\ now.dia % 7 = 6
        /\ state[u].diasDisponibles[1].nombre = now.dia + 2
        /\ state[u].diasDisponibles[5].nombre = now.dia + 6

\* C18: for every reference instant and every UTC offset of the process,
\* the dateKey of each generated day is the calendar date that its label
\* shows and that the weekday test was made on, and so is itself a Monday
\* to Friday.
C18_ClaveDelMismoDia ==
    \A u \in Usuarios :
        "diasDisponibles" \in DOMAIN state[u] =>
            \A i \in 1..Len(state[u].diasDisponibles) :
                /\ state[u].diasDisponibles[i].fechaISO = state[u].diasDisponibles[i].nombre
                /\ EsLaborable(state[u].diasDisponibles[i].fechaISO)

----------------------------------------------------------------------------
(* Properties of the connection *)

\* C19: in every order in which calls of getCitasCollection and the
\* connection events can run, mongoose.model is called at most once, and
\* every call that has returned returned the compiled model, the call that
\* found the connection open before any suspended call had resumed included.
C19_ModeloInicializado ==
    /\ compilados <= 1
    /\ \A c \in Llamadas : llamada[c].pc = "fin" => llamada[c].ret = "modelo"

====
